---- MODULE Spec2Model ----
(***************************************************************************)
(* Condition coverage: the analyzer (analyzer.py) and the pytest plugin    *)
(* that drives it (plugin.py).                                             *)
(*                                                                         *)
(* A source unit is a sequence of lines.  A line is a class header, a      *)
(* function header or a plain statement, at an indentation level, and      *)
(* carries the expression nodes that sit on it, each with its depth below  *)
(* the line's own node, in the order in which ast.NodeVisitor reaches      *)
(* them.  A header with no deeper line after it is a definition written    *)
(* on one line (class A: pass).                                            *)
(***************************************************************************)
EXTENDS Integers, Sequences, FiniteSets, TLC

\* ---------------------------------------------------------------- bounds
\* Longest source unit, in lines.
MaxLines == 3
\* Most files of one plugin run.
MaxFiles == 2
\* Longest source unit of a file of a plugin run, in lines.
MaxFileLines == 1

\* ---------------------------------------------------------- source units
None == "None"

\* The name of the class or the function defined on line i: neighbouring
\* definitions have different names, and a name comes back two lines later
\* (a definition may redefine an earlier one).
ClassNameAt(i) == IF i % 2 = 1 THEN "A" ELSE "B"

MethodNameAt(i) == IF i % 2 = 1 THEN "f" ELSE "g"

\* Expression nodes of a statement line: if a == b and not -c:
\* a BoolOp over a Compare and a UnaryOp(Not) over a UnaryOp(USub).
NodeLists ==
    {<<[type |-> "BoolOp", rel |-> 1], [type |-> "Compare", rel |-> 2],
       [type |-> "Not", rel |-> 2], [type |-> "USub", rel |-> 3]>>}

\* Expression nodes of a function header line: none, def f(x):, or the
\* Compare of a default value, def f(x=a > 0):.
InlineNodeLists == {<<>>, <<[type |-> "Compare", rel |-> 1]>>}

HeaderLines(i, indent) ==
    {[kind |-> "class", name |-> ClassNameAt(i), indent |-> indent, nodes |-> <<>>]}
    \cup
    {[kind |-> "def", name |-> MethodNameAt(i), indent |-> indent, nodes |-> ns] :
        ns \in InlineNodeLists}

StmtLines(indent) ==
    {[kind |-> "stmt", name |-> None, indent |-> indent, nodes |-> ns] :
        ns \in NodeLists}

IsHeader(line) == line.kind \in {"class", "def"}

\* Python's block structure: the first line is at indentation 0; a line may
\* go one level deeper only right after a header, and may close any number
\* of blocks.
MaxIndentAfter(src) ==
    IF src = <<>> THEN 0
    ELSE LET last == src[Len(src)]
         IN  IF IsHeader(last) THEN last.indent + 1 ELSE last.indent

NextLines(src) ==
    UNION {HeaderLines(Len(src) + 1, i) \cup StmtLines(i) : i \in 0..MaxIndentAfter(src)}

SourcesOfLen[n \in Nat] ==
    IF n = 0 THEN {<<>>}
    ELSE UNION {{Append(src, l) : l \in NextLines(src)} : src \in SourcesOfLen[n - 1]}

SourcesUpTo(n) == UNION {SourcesOfLen[k] : k \in 0..n}

Sources == SourcesUpTo(MaxLines)

\* ------------------------------------------------------------ dictionaries
\* A Python dict is a function; its keys are the function's domain.
EmptyDict == <<>>

DictSet(d, k, val) == (k :> val) @@ d

DictGet(d, k, default) == IF k \in DOMAIN d THEN d[k] ELSE default

\* ---------------------------------------------------------------- parsing
\* Last line of the block a header opens: the lines after it that are
\* indented deeper than the header (the header's own line if there is none).
EndLine(src, i) ==
    LET body == {j \in (i + 1)..Len(src) :
                    \A k \in (i + 1)..j : src[k].indent > src[i].indent}
    IN  IF IsHeader(src[i]) /\ body # {}
        THEN CHOOSE j \in body : \A k \in body : k <= j
        ELSE i

NodeType(line) ==
    CASE line.kind = "class" -> "ClassDef"
      [] line.kind = "def"   -> "FunctionDef"
      [] OTHER               -> "Stmt"

\* The nodes of line i in the visitor's (pre-)order, each with its depth
\* in the tree: the statement or definition, then its expression nodes.
LineNodes(src, i) ==
    <<[type |-> NodeType(src[i]), name |-> src[i].name, lineno |-> i,
       end_lineno |-> EndLine(src, i), depth |-> src[i].indent + 1]>>
    \o [k \in 1..Len(src[i].nodes) |->
          [type |-> src[i].nodes[k].type, name |-> None, lineno |-> i,
           end_lineno |-> i, depth |-> src[i].indent + 1 + src[i].nodes[k].rel]]

RECURSIVE ParseLines(_, _)
ParseLines(src, i) ==
    IF i > Len(src) THEN <<>> ELSE LineNodes(src, i) \o ParseLines(src, i + 1)

\* The last node of the subtree of node k: the nodes after k that are
\* deeper than k, up to the first that is not.
LastOfSubtree(nodes, k) ==
    LET below == {j \in k..Len(nodes) :
                     \A m \in (k + 1)..j : nodes[m].depth > nodes[k].depth}
    IN  CHOOSE j \in below : \A m \in below : m <= j

\* ast.parse: the tree as the sequence of its nodes in pre-order; node 1 is
\* the Module.  The subtree of node k is the nodes k..tree[k].last, and the
\* children of k are the roots of the subtrees that follow one another in
\* (k + 1)..tree[k].last.
ast_parse(src) ==
    LET nodes == <<[type |-> "Module", name |-> None, lineno |-> 0,
                    end_lineno |-> 0, depth |-> 0]>> \o ParseLines(src, 1)
    IN  [k \in 1..Len(nodes) |->
            [type |-> nodes[k].type, name |-> nodes[k].name,
             lineno |-> nodes[k].lineno, end_lineno |-> nodes[k].end_lineno,
             last |-> LastOfSubtree(nodes, k)]]

\* ---------------------------------------------------------------- analyzer
ClassInfo(name, start_line, end_line) ==
    [name |-> name, start_line |-> start_line, end_line |-> end_line,
     methods |-> EmptyDict, conditions |-> 0, covered_conditions |-> 0]

add_method(class_info, name, start_line, end_line) ==
    [class_info EXCEPT !.methods = DictSet(@, name, <<start_line, end_line>>)]

ConditionCoverageAnalyzer(source_code) ==
    [source_code |-> source_code, tree |-> ast_parse(source_code),
     conditions |-> EmptyDict, covered_conditions |-> {}, classes |-> EmptyDict]

get_node_lines(node) == <<node.lineno, node.end_lineno>>

\* The visitor's fields.  current_class is the name of a ClassInfo of
\* classes: visit_ClassDef stores the object it makes current under that
\* name in the same step, and only visit_ClassDef writes either.
ConditionVisitor ==
    [conditions |-> EmptyDict, current_class |-> None, classes |-> EmptyDict]

RECURSIVE visit(_, _, _)
RECURSIVE VisitChildren(_, _, _, _)

\* Visits, in order, the children of node k from child j on.
VisitChildren(tree, k, j, v) ==
    IF j > tree[k].last THEN v
    ELSE VisitChildren(tree, k, tree[j].last + 1, visit(tree, j, v))

generic_visit(tree, k, v) == VisitChildren(tree, k, k + 1, v)

visit_ClassDef(tree, k, v) ==
    LET node == tree[k]
        lines == get_node_lines(node)
        class_info == ClassInfo(node.name, lines[1], lines[2])
        entered == [v EXCEPT !.classes = DictSet(@, node.name, class_info),
                             !.current_class = node.name]
    IN  [generic_visit(tree, k, entered) EXCEPT !.current_class = None]

visit_FunctionDef(tree, k, v) ==
    LET node == tree[k]
        lines == get_node_lines(node)
        added == IF v.current_class # None
                 THEN [v EXCEPT !.classes[v.current_class] =
                                   add_method(@, node.name, lines[1], lines[2])]
                 ELSE v
    IN  generic_visit(tree, k, added)

\* self.conditions[node.lineno] = node; the current class counts one more.
RecordCondition(node, v) ==
    LET stored == [v EXCEPT !.conditions = DictSet(@, node.lineno, node.type)]
    IN  IF v.current_class # None
        THEN [stored EXCEPT !.classes[v.current_class].conditions = @ + 1]
        ELSE stored

visit_Compare(tree, k, v) == generic_visit(tree, k, RecordCondition(tree[k], v))

visit_BoolOp(tree, k, v) == generic_visit(tree, k, RecordCondition(tree[k], v))

visit_UnaryOp(tree, k, v) ==
    generic_visit(tree, k,
        IF tree[k].type = "Not" THEN RecordCondition(tree[k], v) ELSE v)

visit(tree, k, v) ==
    CASE tree[k].type = "ClassDef"          -> visit_ClassDef(tree, k, v)
      [] tree[k].type = "FunctionDef"       -> visit_FunctionDef(tree, k, v)
      [] tree[k].type = "Compare"           -> visit_Compare(tree, k, v)
      [] tree[k].type = "BoolOp"            -> visit_BoolOp(tree, k, v)
      [] tree[k].type \in {"Not", "USub"}   -> visit_UnaryOp(tree, k, v)
      [] OTHER                              -> generic_visit(tree, k, v)

\* find_conditions, were the visitor to add to the counts the class table
\* already holds instead of starting every class at zero.
find_conditions_accumulating(self) ==
    LET visitor == visit(self.tree, 1, ConditionVisitor)
        before(c) == IF c \in DOMAIN self.classes
                     THEN self.classes[c].conditions ELSE 0
    IN  [self |-> [self EXCEPT !.conditions = visitor.conditions,
                               !.classes = [c \in DOMAIN visitor.classes |->
                                   [visitor.classes[c] EXCEPT
                                       !.conditions = @ + before(c)]]],
         ret  |-> Cardinality(DOMAIN visitor.conditions)]

\* Each method below yields [self |-> the analyzer after the call,
\* ret |-> what the call returns].
find_conditions(self) ==
    LET visitor == visit(self.tree, 1, ConditionVisitor)
    IN  [self |-> [self EXCEPT !.conditions = visitor.conditions,
                               !.classes = visitor.classes],
         ret  |-> Cardinality(DOMAIN visitor.conditions)]

\* ClassCovered, were it to count the condition lines that did not run.
ClassCovered_unexecuted(conditions, executed_lines, class_info) ==
    Cardinality({line_no \in DOMAIN conditions :
                    /\ line_no \notin executed_lines
                    /\ class_info.start_line <= line_no
                    /\ line_no <= class_info.end_line})

ClassCovered(conditions, executed_lines, class_info) ==
    Cardinality({line_no \in DOMAIN conditions :
                    /\ line_no \in executed_lines
                    /\ class_info.start_line <= line_no
                    /\ line_no <= class_info.end_line})

analyze_file(self, coverage_data) ==
    LET found == find_conditions(self)
        s1 == found.self
        total_conditions == found.ret
        executed_lines == DictGet(coverage_data, "executed_lines", {})
        hit == {line_no \in DOMAIN s1.conditions : line_no \in executed_lines}
        classes == [c \in DOMAIN s1.classes |->
                      [s1.classes[c] EXCEPT !.covered_conditions =
                          ClassCovered(s1.conditions, executed_lines, s1.classes[c])]]
    IN  [self |-> [s1 EXCEPT !.covered_conditions = @ \cup hit,
                             !.classes = classes],
         ret  |-> <<total_conditions, Cardinality(hit)>>]

\* A percentage is kept exact, as a fraction <<numerator, denominator>> in
\* lowest terms, so that two percentages are equal as floats are: 100.0 is
\* <<100, 1>> and 0.0 is <<0, 1>>.
RECURSIVE GCD(_, _)
GCD(a, b) == IF b = 0 THEN a ELSE GCD(b, a % b)

Hundred == <<100, 1>>

Zero == <<0, 1>>

\* covered / total * 100, for total > 0.
Percent(covered, total) ==
    LET g == GCD(covered * 100, total)
    IN  <<(covered * 100) \div g, total \div g>>

PctLeq(p, q) == p[1] * q[2] <= q[1] * p[2]

\* ClassPercent, were it to report an empty class as not covered.
ClassPercent_zero(class_info) ==
    IF class_info.conditions = 0 THEN Zero
    ELSE Percent(class_info.covered_conditions, class_info.conditions)

ClassPercent(class_info) ==
    IF class_info.conditions = 0 THEN Hundred
    ELSE Percent(class_info.covered_conditions, class_info.conditions)

MethodPercent(method_covered, method_conditions) ==
    IF method_conditions = 0 THEN Hundred
    ELSE Percent(method_covered, method_conditions)

MethodCoverage(self, range) ==
    LET inside == {line_no \in DOMAIN self.conditions :
                      range[1] <= line_no /\ line_no <= range[2]}
        method_conditions == Cardinality(inside)
        method_covered == Cardinality(inside \cap self.covered_conditions)
    IN  [total_conditions    |-> method_conditions,
         covered_conditions  |-> method_covered,
         coverage_percentage |-> MethodPercent(method_covered, method_conditions)]

get_class_coverage(self) ==
    [class_name \in DOMAIN self.classes |->
        LET class_info == self.classes[class_name]
        IN  [total_conditions    |-> class_info.conditions,
             covered_conditions  |-> class_info.covered_conditions,
             coverage_percentage |-> ClassPercent(class_info),
             methods |-> [method_name \in DOMAIN class_info.methods |->
                            MethodCoverage(self, class_info.methods[method_name])]]]

\* ------------------------------------------------------------------ plugin
\* _calculate_condition_coverage, for one file whose analyzer was built:
\* the analysis, the file's percentage, and the entry stored for the file.
condition_cov(total, covered) ==
    IF total > 0 THEN Percent(covered, total) ELSE Hundred

\* coverage_data.lines(path) or set(): None and the empty set both give set().
lines_or_set(measured_lines) ==
    IF measured_lines.is_none THEN {} ELSE measured_lines.lines

calculate_file(new_analyzer, lines) ==
    LET file_coverage == [executed_lines |-> lines]
        analyzed == analyze_file(new_analyzer, file_coverage)
        total == analyzed.ret[1]
        covered == analyzed.ret[2]
    IN  [self  |-> analyzed.self,
         entry |-> [condition_coverage |-> condition_cov(total, covered),
                    total_conditions   |-> total,
                    covered_conditions |-> covered,
                    classes            |-> get_class_coverage(analyzed.self)]]

RECURSIVE SumOver(_, _)
SumOver(d, field) ==
    IF DOMAIN d = {} THEN 0
    ELSE LET k == CHOOSE x \in DOMAIN d : TRUE
         IN  d[k][field] + SumOver([x \in DOMAIN d \ {k} |-> d[x]], field)

\* _generate_report: the report data written as JSON and rendered as HTML.
generate_report(results) ==
    LET total_conditions == SumOver(results, "total_conditions")
        covered_conditions == SumOver(results, "covered_conditions")
    IN  [files |-> results,
         total_condition_coverage |->
            IF total_conditions > 0
            THEN Percent(covered_conditions, total_conditions)
            ELSE Zero]

\* ------------------------------------------------------------------- state
VARIABLES
    \* One analyzer, built from a source unit, the coverage data its caller
    \* holds for that unit, and the calls made on the analyzer.
    analyzer,        \* the ConditionCoverageAnalyzer object
    coverage_data,   \* the caller's coverage data for the source unit
    last_call,       \* the call made last ("init": none yet)
    ret,             \* what the last call returned
    found,           \* what the last run of find_conditions returned (-1: none)
    totals,          \* what the last analyze_file returned (<<>>: none)
    \* One plugin run over the files of the package.
    files_to_analyze,   \* per file: has it coverage data, what reading it gives
    idx,                \* files the loop of _calculate_condition_coverage has done
    constructed,        \* the files an analyzer was built for
    condition_coverage_results,
    report_data,        \* what _generate_report produced
    pc                  \* where pytest_sessionfinish is

avars == <<analyzer, coverage_data, last_call, ret, found, totals>>

pvars == <<files_to_analyze, idx, constructed, condition_coverage_results,
           report_data, pc>>

vars == <<avars, pvars>>

LineNumbers(src) == 1..Len(src)

\* The coverage_data dicts a caller may hold: with the executed lines, or
\* without the key.
CoverageDatas(src) ==
    {[executed_lines |-> E] : E \in SUBSET LineNumbers(src)} \cup {EmptyDict}

executed_lines == DictGet(coverage_data, "executed_lines", {})

NoAnalyzer ==
    /\ analyzer = None
    /\ coverage_data = None
    /\ last_call = None
    /\ ret = None
    /\ found = -1
    /\ totals = <<>>

NoPlugin ==
    /\ files_to_analyze = <<>>
    /\ idx = 0
    /\ constructed = {}
    /\ condition_coverage_results = EmptyDict
    /\ report_data = None
    /\ pc = None

\* ------------------------------------------------------- the analyzer's life
Init ==
    /\ \E src \in Sources :
          /\ analyzer = ConditionCoverageAnalyzer(src)
          /\ coverage_data \in CoverageDatas(src)
    /\ last_call = "init"
    /\ ret = None
    /\ found = -1
    /\ totals = <<>>
    /\ NoPlugin

FindConditions ==
    LET r == find_conditions(analyzer)
    IN  /\ analyzer' = r.self
        /\ last_call' = "find_conditions"
        /\ ret' = r.ret
        /\ found' = r.ret
        /\ UNCHANGED <<coverage_data, totals, pvars>>

AnalyzeFile ==
    LET r == analyze_file(analyzer, coverage_data)
    IN  /\ analyzer' = r.self
        /\ last_call' = "analyze_file"
        /\ ret' = r.ret
        /\ found' = r.ret[1]
        /\ totals' = r.ret
        /\ UNCHANGED <<coverage_data, pvars>>

GetClassCoverage ==
    /\ ret' = get_class_coverage(analyzer)
    /\ last_call' = "get_class_coverage"
    /\ UNCHANGED <<analyzer, coverage_data, found, totals, pvars>>

\* What the plugin does with the analyzer it has just built for a file.
CalculateFile ==
    /\ last_call = "init"
    /\ LET r == calculate_file(analyzer, executed_lines)
       IN  /\ analyzer' = r.self
           /\ last_call' = "calculate_file"
           /\ ret' = r.entry
           /\ found' = r.entry.total_conditions
           /\ totals' = <<r.entry.total_conditions, r.entry.covered_conditions>>
    /\ UNCHANGED <<coverage_data, pvars>>

Next == FindConditions \/ AnalyzeFile \/ GetClassCoverage \/ CalculateFile

Spec == Init /\ [][Next]_vars

\* ------------------------------- one analyzer, analysed again and again
\* The caller analyses the same analyzer with coverage data that differs
\* from call to call, and reads the class coverage in between.
AnalyzeFileWith ==
    \E data \in CoverageDatas(analyzer.source_code) :
        LET r == analyze_file(analyzer, data)
        IN  /\ coverage_data' = data
            /\ analyzer' = r.self
            /\ last_call' = "analyze_file"
            /\ ret' = r.ret
            /\ found' = r.ret[1]
            /\ totals' = r.ret
            /\ UNCHANGED pvars

NextSequence == AnalyzeFileWith \/ GetClassCoverage

SpecSequence == Init /\ [][NextSequence]_vars

\* ------------------------------------------------------------ a plugin run
\* What opening and parsing a file gives: a source unit ("ok"), or an error
\* (open fails with OSError, ast.parse fails with SyntaxError).
FileErrors == {"OSError", "SyntaxError"}

Files == [measured : BOOLEAN, status : {"ok"} \cup FileErrors]

\* coverage_data.lines(path) of a measured file: None or a set of lines.
MeasuredLines(content) ==
    {[is_none |-> TRUE, lines |-> {}]}
    \cup {[is_none |-> FALSE, lines |-> E] : E \in SUBSET LineNumbers(content)}

PluginInit ==
    /\ NoAnalyzer
    /\ \E n \in 0..MaxFiles : files_to_analyze \in [1..n -> Files]
    /\ idx = 0
    /\ constructed = {}
    /\ condition_coverage_results = EmptyDict
    /\ report_data = None
    /\ pc = "calculate"

\* One turn of the loop over files_to_analyze, for file idx + 1: no coverage
\* data, so the file is skipped.
SkipFile ==
    /\ pc = "calculate"
    /\ idx < Len(files_to_analyze)
    /\ ~files_to_analyze[idx + 1].measured
    /\ idx' = idx + 1
    /\ UNCHANGED <<files_to_analyze, constructed, condition_coverage_results,
                   report_data, pc, avars>>

\* FailFile, were the exception to leave the loop instead of being caught
\* inside it: the files after the failing one are never looked at.
FailFile_abort ==
    /\ pc = "calculate"
    /\ idx < Len(files_to_analyze)
    /\ files_to_analyze[idx + 1].measured
    /\ files_to_analyze[idx + 1].status \in FileErrors
    /\ idx' = Len(files_to_analyze)
    /\ constructed' =
          IF files_to_analyze[idx + 1].status = "SyntaxError"
          THEN constructed \cup {idx + 1} ELSE constructed
    /\ UNCHANGED <<files_to_analyze, condition_coverage_results, report_data,
                   pc, avars>>

\* One turn of the loop: an exception inside the try, caught and logged.
FailFile ==
    /\ pc = "calculate"
    /\ idx < Len(files_to_analyze)
    /\ files_to_analyze[idx + 1].measured
    /\ files_to_analyze[idx + 1].status \in FileErrors
    /\ idx' = idx + 1
    /\ constructed' =
          IF files_to_analyze[idx + 1].status = "SyntaxError"
          THEN constructed \cup {idx + 1} ELSE constructed
    /\ UNCHANGED <<files_to_analyze, condition_coverage_results, report_data,
                   pc, avars>>

\* One turn of the loop: the file is read, analysed and its entry stored.
ProcessFile ==
    /\ pc = "calculate"
    /\ idx < Len(files_to_analyze)
    /\ files_to_analyze[idx + 1].measured
    /\ files_to_analyze[idx + 1].status = "ok"
    /\ \E content \in SourcesUpTo(MaxFileLines) :
          \E measured_lines \in MeasuredLines(content) :
             LET lines == lines_or_set(measured_lines)
                 r == calculate_file(ConditionCoverageAnalyzer(content), lines)
             IN  /\ idx' = idx + 1
                 /\ constructed' = constructed \cup {idx + 1}
                 /\ condition_coverage_results' =
                       DictSet(condition_coverage_results, idx + 1, r.entry)
    /\ UNCHANGED <<files_to_analyze, report_data, pc, avars>>

GenerateReport ==
    /\ pc = "calculate"
    /\ idx = Len(files_to_analyze)
    /\ report_data' = generate_report(condition_coverage_results)
    /\ pc' = "done"
    /\ UNCHANGED <<files_to_analyze, idx, constructed, condition_coverage_results,
                   avars>>

PluginNext == SkipFile \/ FailFile \/ ProcessFile \/ GenerateReport

SpecPlugin == PluginInit /\ [][PluginNext]_vars

\* ================================================================= claims
ConditionTypes == {"Compare", "BoolOp", "Not"}

\* The condition nodes of a tree: every Compare, BoolOp and `not`.
ConditionNodes(tree) == {k \in 1..Len(tree) : tree[k].type \in ConditionTypes}

\* The lines of the conditions self.conditions holds, within a line range.
ConditionLinesIn(self, start_line, end_line) ==
    {line_no \in DOMAIN self.conditions :
        start_line <= line_no /\ line_no <= end_line}

\* The class coverage the last call returned, in the states that hold one.
HasClassCoverage == last_call \in {"get_class_coverage", "calculate_file"}

LastClassCoverage == IF last_call = "calculate_file" THEN ret.classes ELSE ret

\* C1 -- Classification independence: the file-level total that
\* find_conditions and analyze_file return counts every Compare, BoolOp and
\* `not` node of the source once, also when several sit on one line (a line
\* with a comparison and a boolean combination adds one per node, not 1).
C1_EveryConditionNodeCounted ==
    /\ last_call = "find_conditions" =>
          ret = Cardinality(ConditionNodes(analyzer.tree))
    /\ last_call = "analyze_file" =>
          ret[1] = Cardinality(ConditionNodes(analyzer.tree))

\* C2 -- Rollup consistency (class vs file): after analyze_file and
\* get_class_coverage, each class's total_conditions is the number of
\* file-level conditions whose line lies in [start_line, end_line].
C2_ClassTotalIsRangeCount ==
    (HasClassCoverage /\ totals # <<>>) =>
        \A c \in DOMAIN LastClassCoverage :
            LastClassCoverage[c].total_conditions =
                Cardinality(ConditionLinesIn(analyzer,
                    analyzer.classes[c].start_line, analyzer.classes[c].end_line))

RECURSIVE SumTotals(_)
SumTotals(methods) ==
    IF DOMAIN methods = {} THEN 0
    ELSE LET m == CHOOSE x \in DOMAIN methods : TRUE
         IN  methods[m].total_conditions
             + SumTotals([x \in DOMAIN methods \ {m} |-> methods[x]])

\* C3 -- Rollup consistency (methods vs class): for every class that
\* get_class_coverage reports, the total_conditions of its methods add up
\* to at most the class's total_conditions.
C3_MethodTotalsWithinClassTotal ==
    HasClassCoverage =>
        \A c \in DOMAIN LastClassCoverage :
            SumTotals(LastClassCoverage[c].methods)
                <= LastClassCoverage[c].total_conditions

\* A scope in which every line that holds a condition was executed is
\* reported fully covered.
FullyCovered(scope, percentage, start_line, end_line) ==
    ConditionLinesIn(analyzer, start_line, end_line) \subseteq executed_lines =>
        /\ scope.covered_conditions = scope.total_conditions
        /\ percentage = Hundred

\* C4 -- Full execution gives full coverage: a scope (file, class, method)
\* all of whose condition lines were executed has covered_conditions =
\* total_conditions and a coverage percentage of 100.
C4_FullExecutionFullCoverage ==
    last_call = "calculate_file" =>
        /\ FullyCovered(ret, ret.condition_coverage, 1, Len(analyzer.source_code))
        /\ \A c \in DOMAIN ret.classes :
              LET class_info == analyzer.classes[c]
              IN  /\ FullyCovered(ret.classes[c], ret.classes[c].coverage_percentage,
                                  class_info.start_line, class_info.end_line)
                  /\ \A m \in DOMAIN ret.classes[c].methods :
                        FullyCovered(ret.classes[c].methods[m],
                                     ret.classes[c].methods[m].coverage_percentage,
                                     class_info.methods[m][1], class_info.methods[m][2])

\* C6 -- Zero-condition vacuity: every scope (file, class, method) whose
\* total_conditions is 0 is reported with a coverage percentage of exactly
\* 100.0, whatever lines were executed (a division by zero would stop the
\* evaluation of the call that computes the percentage).
C6_ZeroConditionsHundred ==
    /\ last_call = "calculate_file" =>
          (ret.total_conditions = 0 => ret.condition_coverage = Hundred)
    /\ HasClassCoverage =>
          \A c \in DOMAIN LastClassCoverage :
              LET class_cov == LastClassCoverage[c]
              IN  /\ class_cov.total_conditions = 0 =>
                        class_cov.coverage_percentage = Hundred
                  /\ \A m \in DOMAIN class_cov.methods :
                        class_cov.methods[m].total_conditions = 0 =>
                            class_cov.methods[m].coverage_percentage = Hundred

\* A file without conditions, analysed with lines executed, that holds a
\* class without conditions which has a method without conditions.
C6_Witness ==
    /\ last_call = "calculate_file"
    /\ executed_lines # {}
    /\ ret.total_conditions = 0
    /\ \E c \in DOMAIN ret.classes :
          /\ ret.classes[c].total_conditions = 0
          /\ \E m \in DOMAIN ret.classes[c].methods :
                ret.classes[c].methods[m].total_conditions = 0

\* What analysing the same source unit afresh with line l also executed
\* reports for the file.
WithLine(l) ==
    calculate_file(ConditionCoverageAnalyzer(analyzer.source_code),
                   executed_lines \cup {l}).entry

NotSmaller(scope, percentage, more, more_percentage) ==
    /\ scope.covered_conditions <= more.covered_conditions
    /\ PctLeq(percentage, more_percentage)

\* C7 -- Monotonicity: analysing a source unit with executed lines E \cup {l}
\* gives, for the file, every class and every method, covered_conditions
\* and a coverage percentage not smaller than analysing it with E.
C7_Monotone ==
    last_call = "calculate_file" =>
        \A l \in LineNumbers(analyzer.source_code) :
            LET more == WithLine(l)
            IN  /\ NotSmaller(ret, ret.condition_coverage,
                              more, more.condition_coverage)
                /\ \A c \in DOMAIN ret.classes :
                      /\ NotSmaller(ret.classes[c],
                                    ret.classes[c].coverage_percentage,
                                    more.classes[c],
                                    more.classes[c].coverage_percentage)
                      /\ \A m \in DOMAIN ret.classes[c].methods :
                            NotSmaller(ret.classes[c].methods[m],
                                ret.classes[c].methods[m].coverage_percentage,
                                more.classes[c].methods[m],
                                more.classes[c].methods[m].coverage_percentage)

\* A line not yet executed whose execution raises the covered conditions of
\* the file, of a class and of a method of that class.
C7_Witness ==
    /\ last_call = "calculate_file"
    /\ \E l \in LineNumbers(analyzer.source_code) \ executed_lines :
          LET more == WithLine(l)
          IN  /\ ret.covered_conditions < more.covered_conditions
              /\ \E c \in DOMAIN ret.classes :
                    /\ ret.classes[c].covered_conditions
                          < more.classes[c].covered_conditions
                    /\ \E m \in DOMAIN ret.classes[c].methods :
                          ret.classes[c].methods[m].covered_conditions
                              < more.classes[c].methods[m].covered_conditions

\* What the extractor leaves on the analyzer: the condition map and the
\* class table (names, line ranges, method ranges, condition counts).
ExtractorMaps(self) ==
    [conditions |-> self.conditions,
     classes    |-> [c \in DOMAIN self.classes |->
                       [name       |-> self.classes[c].name,
                        start_line |-> self.classes[c].start_line,
                        end_line   |-> self.classes[c].end_line,
                        methods    |-> self.classes[c].methods,
                        conditions |-> self.classes[c].conditions]]]

\* C9 -- Extractor idempotence: whatever was called on an analyzer before,
\* find_conditions leaves the condition map, the class table and the
\* per-class condition counts that its first run on an analyzer built from
\* the same source text leaves, and returns the same count: a repeated run
\* changes nothing and accumulates nothing.
C9_FindConditionsIdempotent ==
    last_call = "find_conditions" =>
        LET first == find_conditions(ConditionCoverageAnalyzer(analyzer.source_code))
        IN  /\ ExtractorMaps(analyzer) = ExtractorMaps(first.self)
            /\ ret = first.ret

\* find_conditions has run again after an analysis (which ran it before),
\* on a source with a class that has a method and conditions.
C9_Witness ==
    /\ last_call = "find_conditions"
    /\ totals # <<>>
    /\ \E c \in DOMAIN analyzer.classes :
          /\ analyzer.classes[c].conditions > 0
          /\ DOMAIN analyzer.classes[c].methods # {}

\* The class definition a node sits in most closely (0: none).
EnclosingClass(tree, k) ==
    LET around == {j \in 1..(k - 1) :
                      tree[j].type = "ClassDef" /\ k <= tree[j].last}
    IN  IF around = {} THEN 0
        ELSE CHOOSE j \in around : \A i \in around : i <= j

\* C10 -- Scope restoration on class exit: leaving a class definition makes
\* the class around it current again, so every condition is counted toward
\* the class it sits in most closely and every function defined there is in
\* that class's method table, also after a nested class has ended.
C10_ScopeRestoredOnClassExit ==
    last_call = "find_conditions" =>
        LET tree == analyzer.tree
            class_nodes == {k \in 1..Len(tree) : tree[k].type = "ClassDef"}
        IN  \A k \in class_nodes :
                (\A j \in class_nodes \ {k} : tree[j].name # tree[k].name) =>
                    LET own == {j \in 1..Len(tree) : EnclosingClass(tree, j) = k}
                        class_info == analyzer.classes[tree[k].name]
                    IN  /\ class_info.conditions =
                              Cardinality(own \cap ConditionNodes(tree))
                        /\ \A j \in own :
                              tree[j].type = "FunctionDef" =>
                                  tree[j].name \in DOMAIN class_info.methods

\* C5 -- Top-level aggregate: the report's total_condition_coverage is
\* sum(covered_conditions) / sum(total_conditions) * 100 over the reported
\* files, and 100.0 when the grand total of conditions is zero (also when
\* no file is reported).
C5_AggregateOfSums ==
    pc = "done" =>
        LET total == SumOver(report_data.files, "total_conditions")
            covered == SumOver(report_data.files, "covered_conditions")
        IN  report_data.total_condition_coverage =
                IF total = 0 THEN Hundred ELSE Percent(covered, total)

\* The files of the list that have coverage data and can be read and parsed.
Analysable ==
    {i \in 1..Len(files_to_analyze) :
        files_to_analyze[i].measured /\ files_to_analyze[i].status = "ok"}

\* C8 -- Per-file failure isolation: a file that fails to open or parse, or
\* has no execution-coverage entry, is left out of the results; no analyzer
\* is built for a file without coverage data; every other file of the list
\* is processed and reported, wherever the failing files are in the list.
C8_FailureIsolation ==
    /\ \A i \in constructed : files_to_analyze[i].measured
    /\ DOMAIN condition_coverage_results = Analysable \cap (1..idx)
    /\ pc = "done" =>
          /\ idx = Len(files_to_analyze)
          /\ DOMAIN report_data.files = Analysable

\* A run that has ended with a measured file that failed to parse
\* before a file that is reported.
C8_Witness ==
    /\ pc = "done"
    /\ \E i \in 1..Len(files_to_analyze) :
          /\ files_to_analyze[i].measured
          /\ files_to_analyze[i].status = "SyntaxError"
          /\ \E j \in (i + 1)..Len(files_to_analyze) :
                j \in DOMAIN report_data.files

\* C11 -- Aggregation is a pure function of its inputs: after any sequence
\* of analyze_file calls on one analyzer, the file totals and the output of
\* get_class_coverage are those of a fresh analyzer of the same source given
\* only the executed lines of the last call; nothing of earlier calls stays.
C11_OnlyLastCallCounts ==
    totals # <<>> =>
        LET fresh == analyze_file(ConditionCoverageAnalyzer(analyzer.source_code),
                                  coverage_data)
        IN  /\ totals = fresh.ret
            /\ get_class_coverage(analyzer) = get_class_coverage(fresh.self)

\* A scope's counts and percentage are within their range.
WithinTotal(scope, percentage) ==
    /\ 0 <= scope.covered_conditions
    /\ scope.covered_conditions <= scope.total_conditions
    /\ PctLeq(Zero, percentage)
    /\ PctLeq(percentage, Hundred)

\* C12 -- Covered never exceeds total: every scope reported (file, class,
\* method) has 0 <= covered_conditions <= total_conditions and a coverage
\* percentage between 0 and 100, also for classes that hold nested classes
\* or several conditions on one line.
C12_CoveredWithinTotal ==
    /\ totals # <<>> => (0 <= totals[2] /\ totals[2] <= totals[1])
    /\ last_call = "calculate_file" => WithinTotal(ret, ret.condition_coverage)
    /\ HasClassCoverage =>
          \A c \in DOMAIN LastClassCoverage :
              /\ WithinTotal(LastClassCoverage[c],
                             LastClassCoverage[c].coverage_percentage)
              /\ \A m \in DOMAIN LastClassCoverage[c].methods :
                    WithinTotal(LastClassCoverage[c].methods[m],
                                LastClassCoverage[c].methods[m].coverage_percentage)

====
